---- MODULE Spec2Model ----
(***************************************************************************)
(* Model of the loader of the ETL pipeline (src/scripts/load.py) over the  *)
(* PostgreSQL schema of src/scripts/models.py.                             *)
(*                                                                         *)
(* The durable store holds three tables: transacoes, logs_etl and          *)
(* arquivos_processados.  Every loader invocation (a process of Procs)     *)
(* owns one SQLAlchemy session whose open transaction holds the rows it    *)
(* has flushed but not committed.                                          *)
(*                                                                         *)
(* The transformer (src/scripts/transform.py) and the orchestrator         *)
(* (src/scripts/main.py) are modelled next to it, each with a              *)
(* specification of its own over its own variables.                        *)
(***************************************************************************)
EXTENDS Integers, Sequences, FiniteSets, TLC

\* ------------------------------------------------------------------------
\* Bounds of the model
\* ------------------------------------------------------------------------
NumKeys == 2
MaxCalls == 2

\* Two loader invocations, each with a session of its own.
Procs == {"p1", "p2"}
Keys == 1..NumKeys

\* ------------------------------------------------------------------------
\* Settings (src/config/settings.py), scaled down
\* ------------------------------------------------------------------------
etl_batch_size == 2
etl_copy_threshold == 2

NULL == "NULL"

\* A record of the DataFrame handed to the loader: its business key and the
\* way the store reacts to the row itself.  "ok": the row satisfies every
\* column constraint; "check": the row violates a CHECK / NOT NULL
\* constraint of transacoes (psycopg2 IntegrityError); "data": the row
\* cannot be bound to its column (value too long: DataError, which is not
\* an IntegrityError).
Rec(k, e) == [id_transacao |-> k, err |-> e]

\* The file contents known to the model.  The content hash of a file is the
\* index of its content here: equal bytes give equal hashes and (MD5
\* collisions aside) different bytes give different hashes.
FileContents ==
  << << Rec(1, "ok"), Rec(2, "ok") >>,
     << Rec(2, "ok"), Rec(2, "ok"), Rec(1, "data") >>,
     << Rec(1, "check"), Rec(2, "ok") >>,
     << Rec(2, "ok"), Rec(2, "ok") >>,
     << >> >>

Hashes == 1..Len(FileContents)

\* The files handed to the loader, as <<name, content hash>>: the same
\* bytes under two names, and several contents under one name.
Files ==
  { <<"a.csv", 1>>, <<"b.csv", 1>>, <<"b.csv", 2>>,
    <<"a.csv", 3>>, <<"b.csv", 4>>, <<"a.csv", 5>> }

calculate_file_hash(h) == h
DataFrame(h) == FileContents[h]

VARIABLES
  transacoes,            \* committed rows of transacoes: key -> number of rows
  logs_etl,              \* committed rows of logs_etl
  arquivos_processados,  \* committed rows of arquivos_processados
  log_seq,               \* sequence behind logs_etl.id_log
  calls,                 \* loader calls made so far
  pc,                    \* position of each invocation
  args,                  \* arguments of the current call of each invocation
  session,               \* open transaction of each invocation
  log,                   \* the LogETL object held by each invocation
  stats,                 \* the stats dictionary of the insert strategy
  pos,                   \* index of the next record / batch start
  result,                \* LoadResult of the last call
  steps,                 \* steps of load made by the current call, in order
  temp_files,            \* files of processed_data_path: name -> content
  temp_path,             \* temp_path of the current call of load_via_copy
  raw,                   \* transformer: the DataFrame handed to transform
  frame,                 \* transformer: the DataFrame after the last stage
  tpc,                   \* transformer: the next stage
  tstats,                \* transformer: statistics gathered so far
  raw_columns,           \* transformer: the columns of the DataFrame handed in
  columns,               \* transformer: df.columns after the last stage
  files,                 \* orchestrator: the batch of files of the run
  results,               \* orchestrator: the list of per-file results
  run_pc,                \* orchestrator: position of run / main
  exit_code,             \* orchestrator: exit status of the process
  settings,              \* orchestrator: the settings of the deployment
  summary,               \* orchestrator: the figures of the final summary
  loads,                 \* orchestrator: the calls of load made so far
  parity                 \* the two strategies run side by side

loader_vars == << transacoes, logs_etl, arquivos_processados, log_seq, calls,
                  pc, args, session, log, stats, pos, result, steps,
                  temp_files, temp_path >>

transformer_vars == << raw, frame, tpc, tstats, raw_columns, columns >>

pipeline_vars == << files, results, run_pc, exit_code, settings, summary, loads >>

\* What a step of the loader leaves alone.
outside_loader == << transformer_vars, pipeline_vars, parity >>

\* The staging files of load_via_copy.
staging == << temp_files, temp_path >>

vars == << transacoes, logs_etl, arquivos_processados, log_seq, calls,
           pc, args, session, log, stats, pos, result, steps,
           temp_files, temp_path,
           raw, frame, tpc, tstats, raw_columns, columns,
           files, results, run_pc, exit_code, settings, summary, loads,
           parity >>

\* ------------------------------------------------------------------------
\* Rows and objects
\* ------------------------------------------------------------------------
NoRows == [k \in Keys |-> 0]

RECURSIVE SumTo(_, _)
SumTo(rows, n) == IF n = 0 THEN 0 ELSE rows[n] + SumTo(rows, n - 1)

RowCount(rows) == SumTo(rows, NumKeys)

AddRows(a, b) == [k \in Keys |-> a[k] + b[k]]

Min(a, b) == IF a < b THEN a ELSE b

LogETL(id, file_name, file_hash, status) ==
  [ id_log |-> id,
    arquivo_processado |-> file_name,
    arquivo_hash |-> file_hash,
    status_execucao |-> status,
    qtd_registros_lidos |-> 0,
    qtd_registros_inseridos |-> 0,
    qtd_registros_rejeitados |-> 0,
    qtd_duplicatas_ignoradas |-> 0,
    mensagem_erro |-> NULL,
    detalhes |-> NULL ]

NoLog == LogETL(0, NULL, 0, NULL)

ArquivoProcessado(file_name, file_hash, log_id) ==
  [ nome_arquivo |-> file_name,
    hash_arquivo |-> file_hash,
    status |-> "PROCESSADO",
    id_log_etl |-> log_id ]

LoadResult(success, inserted, skipped, failed, error, log_id) ==
  [ success |-> success,
    records_inserted |-> inserted,
    records_skipped |-> skipped,
    records_failed |-> failed,
    error_message |-> error,
    log_id |-> log_id ]

NoResult == LoadResult(FALSE, 0, 0, 0, NULL, 0)

\* The insert strategy of a call, from use_bulk and use_copy.
Strategy(use_bulk, use_copy) ==
  IF use_copy THEN "copy" ELSE IF use_bulk THEN "bulk" ELSE "row"

Args(file_name, file_hash, strategy) ==
  [file_name |-> file_name, file_hash |-> file_hash, strategy |-> strategy]

NoArgs == Args(NULL, 0, NULL)

NoStats == [inserted |-> 0, skipped |-> 0, failed |-> 0]

\* A session with no open transaction.
NoSession == [rows |-> NoRows, log_row |-> FALSE]

\* ------------------------------------------------------------------------
\* Constraints of the schema (src/scripts/models.py)
\* ------------------------------------------------------------------------
\* The table without its unique constraint: no row ever collides.
uk_transacao_id_dropped(rows, k) == FALSE

\* UniqueConstraint("id_transacao"): a row with key k collides with the rows
\* the transaction sees.
uk_transacao_id(rows, k) == rows[k] > 0

\* nome_arquivo is unique in arquivos_processados.
uq_nome_arquivo(file_name) ==
  \E a \in arquivos_processados : a.nome_arquivo = file_name

\* The registry without its foreign key: any log id is accepted.
fk_id_log_etl_unchecked(p, log_id) == TRUE

\* ForeignKey("logs_etl.id_log") of arquivos_processados.id_log_etl: the row
\* referenced exists, committed or inserted by the same transaction.
fk_id_log_etl(p, log_id) ==
  \/ \E l \in logs_etl : l.id_log = log_id
  \/ session[p].log_row /\ log[p].id_log = log_id

\* Rows of transacoes the transaction of p sees: the committed ones and its
\* own.
Visible(p) == AddRows(transacoes, session[p].rows)


\* ------------------------------------------------------------------------
\* DataLoader (src/scripts/load.py)
\* ------------------------------------------------------------------------
\* The gate asking for a status value that register_file_processed never
\* writes.
check_file_processed_wrong_status(file_hash) ==
  \E a \in arquivos_processados :
    a.hash_arquivo = file_hash /\ a.status = "PROCESSED"

check_file_processed(file_hash) ==
  \E a \in arquivos_processados :
    a.hash_arquivo = file_hash /\ a.status = "PROCESSADO"

update_log_entry(l, status, read, inserted, rejected, duplicates, error, details) ==
  [ l EXCEPT !.status_execucao = status,
             !.qtd_registros_lidos = read,
             !.qtd_registros_inseridos = inserted,
             !.qtd_registros_rejeitados = rejected,
             !.qtd_duplicatas_ignoradas = duplicates,
             !.mensagem_erro = error,
             !.detalhes = details ]

\* Status of the execution log chosen by load from the counters.
FinalStatus(st) ==
  IF st.failed > 0
    THEN (IF st.inserted > 0 THEN "PARCIAL" ELSE "ERRO")
    ELSE "SUCESSO"

\* use_copy of load: COPY is taken when the setting is on and the DataFrame
\* is large enough.
UseCopy(etl_use_copy, df) == etl_use_copy /\ Len(df) >= etl_copy_threshold

\* session.rollback(): the open transaction is undone, the objects it
\* inserted (the log row among them) leave the session and keep their
\* attribute values.
Rollback == NoSession

\* --- load / load_via_copy up to the idempotency gate ---------------------

\* The invocations are interchangeable: the second one starts only after
\* the first one has.
CanCall(p) ==
  /\ pc[p] \in {"idle", "done", "crashed", "stopped"}
  /\ calls < MaxCalls
  /\ p = "p1" \/ pc["p1"] # "idle"

\* connect() or ensure_tables_exist() fails: the call returns at once,
\* whatever its arguments.
load_unreachable(p) ==
  /\ UNCHANGED outside_loader
  /\ UNCHANGED staging
  /\ CanCall(p)
  /\ calls' = calls + 1
  /\ \E reached \in {<< >>, << "ensure_tables_exist" >>} :
       steps' = [steps EXCEPT ![p] = reached]
  /\ args' = [args EXCEPT ![p] = NoArgs]
  /\ result' = [result EXCEPT ![p] = LoadResult(FALSE, 0, 0, 0, "connect", 0)]
  /\ pc' = [pc EXCEPT ![p] = "done"]
  /\ log' = [log EXCEPT ![p] = NoLog]
  /\ UNCHANGED << transacoes, logs_etl, arquivos_processados, log_seq,
                  session, stats, pos >>

\* The short-circuit taken after the execution log was created and
\* committed.
load_already_processed_logged(p, file_name, file_hash, use_bulk, etl_use_copy) ==
  /\ UNCHANGED outside_loader
  /\ UNCHANGED staging
  /\ CanCall(p)
  /\ check_file_processed(file_hash)
  /\ calls' = calls + 1
  /\ args' = [args EXCEPT ![p] =
        Args(file_name, calculate_file_hash(file_hash),
             Strategy(use_bulk, UseCopy(etl_use_copy, DataFrame(file_hash))))]
  /\ result' = [result EXCEPT ![p] =
        LoadResult(TRUE, 0, Len(DataFrame(file_hash)), 0, "already", 0)]
  /\ pc' = [pc EXCEPT ![p] = "done"]
  /\ log' = [log EXCEPT ![p] = NoLog]
  /\ log_seq' = log_seq + 1
  /\ logs_etl' = logs_etl \cup
        {LogETL(log_seq + 1, file_name, file_hash, "EM_ANDAMENTO")}
  /\ steps' = [steps EXCEPT ![p] =
        << "ensure_tables_exist", "check_file_processed", "create_log_entry",
           "commit" >>]
  /\ UNCHANGED << transacoes, arquivos_processados, session, stats, pos >>

\* check_file_processed answers True: short-circuit.
load_already_processed(p, file_name, file_hash, use_bulk, etl_use_copy) ==
  /\ UNCHANGED outside_loader
  /\ UNCHANGED staging
  /\ CanCall(p)
  /\ check_file_processed(file_hash)
  /\ calls' = calls + 1
  /\ args' = [args EXCEPT ![p] =
        Args(file_name, calculate_file_hash(file_hash),
             Strategy(use_bulk, UseCopy(etl_use_copy, DataFrame(file_hash))))]
  /\ result' = [result EXCEPT ![p] =
        LoadResult(TRUE, 0, Len(DataFrame(file_hash)), 0, "already", 0)]
  /\ pc' = [pc EXCEPT ![p] = "done"]
  /\ log' = [log EXCEPT ![p] = NoLog]
  /\ steps' = [steps EXCEPT ![p] =
        << "ensure_tables_exist", "check_file_processed" >>]
  /\ UNCHANGED << transacoes, logs_etl, arquivos_processados, log_seq,
                  session, stats, pos >>

\* The insert strategy of a call, as a step of load.
InsertStep(strategy) ==
  IF strategy = "copy" THEN "_copy_from_csv"
  ELSE IF strategy = "bulk" THEN "insert_batch_bulk" ELSE "insert_batch"

\* load past the gate: create_log_entry adds the log and flushes it inside
\* the transaction of the session (no commit), and the insert strategy is
\* entered.
load_begin(p, file_name, file_hash, use_bulk, etl_use_copy) ==
  /\ UNCHANGED outside_loader
  /\ UNCHANGED staging
  /\ CanCall(p)
  /\ ~ UseCopy(etl_use_copy, DataFrame(file_hash))
  /\ ~ check_file_processed(file_hash)
  /\ calls' = calls + 1
  /\ args' = [args EXCEPT ![p] =
        Args(file_name, calculate_file_hash(file_hash), Strategy(use_bulk, FALSE))]
  /\ log_seq' = log_seq + 1
  /\ log' = [log EXCEPT ![p] =
        LogETL(log_seq + 1, file_name, file_hash, "EM_ANDAMENTO")]
  /\ session' = [session EXCEPT ![p] = [rows |-> NoRows, log_row |-> TRUE]]
  /\ stats' = [stats EXCEPT ![p] = NoStats]
  /\ pos' = [pos EXCEPT ![p] = 1]
  /\ result' = [result EXCEPT ![p] = NoResult]
  /\ pc' = [pc EXCEPT ![p] =
        IF Len(DataFrame(file_hash)) = 0 THEN "finalize" ELSE "insert"]
  /\ steps' = [steps EXCEPT ![p] =
        << "ensure_tables_exist", "check_file_processed", "create_log_entry",
           InsertStep(Strategy(use_bulk, FALSE)) >>]
  /\ UNCHANGED << transacoes, logs_etl, arquivos_processados >>

\* --- what a statement waits for ------------------------------------------

\* Offset i of the batch that holds record j (records are numbered from 1).
BatchStart(j) == ((j - 1) \div etl_batch_size) * etl_batch_size

BatchLen(df, i) == Min(etl_batch_size, Len(df) - i)

\* Index of the first row of batch the store rejects, Len(batch) + 1 if none.
RECURSIVE FirstBad(_, _)
FirstBad(batch, n) ==
  IF n > Len(batch) THEN n
  ELSE IF batch[n].err # "ok" THEN n ELSE FirstBad(batch, n + 1)

\* Keys of the rows of a statement that reach the unique index before the
\* statement ends: those before the first row that raises.
RECURSIVE IndexedKeys(_, _, _)
IndexedKeys(rows, seen, stop_on_conflict) ==
  IF rows = << >> THEN {}
  ELSE LET r == Head(rows) IN
       IF r.err # "ok" THEN {}
       ELSE IF uk_transacao_id(seen, r.id_transacao)
         THEN (IF stop_on_conflict THEN {}
               ELSE IndexedKeys(Tail(rows), seen, stop_on_conflict))
         ELSE {r.id_transacao} \cup
              IndexedKeys(Tail(rows), [seen EXCEPT ![r.id_transacao] = @ + 1],
                          stop_on_conflict)

\* The rows the next statement of p works on.
NextRows(p) ==
  LET df == DataFrame(args[p].file_hash) IN
  IF pc[p] = "insert" /\ args[p].strategy = "row" THEN << df[pos[p]] >>
  ELSE IF pc[p] = "insert" /\ args[p].strategy = "bulk"
    THEN SubSeq(df, pos[p], pos[p] - 1 + BatchLen(df, pos[p] - 1))
  ELSE IF pc[p] = "copy" /\ temp_files[temp_path[p]] # 0
    THEN DataFrame(temp_files[temp_path[p]])
  ELSE << >>

\* p waits for q: the next statement of p inserts a key that the open
\* transaction of q has inserted.
WaitsFor(p, q) ==
  /\ q # p
  /\ \E k \in IndexedKeys(NextRows(p), Visible(p), args[p].strategy # "bulk") :
       session[q].rows[k] > 0

Waits(p) == \E q \in Procs : WaitsFor(p, q)

\* The store ends a cycle of waits by failing the statement of one of the
\* waiting transactions (deadlock detected, an OperationalError).
Deadlock(p) == \E q \in Procs : WaitsFor(p, q) /\ WaitsFor(q, p)

\* --- insert_batch: row-level strategy, one record per step ---------------

\* stats["failed"] += len(batch) - stats["inserted"] - stats["skipped"]
RowBatchFailed(st, blen) ==
  [st EXCEPT !.failed = @ + blen - st.inserted - st.skipped]

AfterInsert(df, next) == IF next > Len(df) THEN "finalize" ELSE "insert"

\* session.add + session.flush of record j of df in a session that sees the
\* rows seen: the counters, the session and the index of the next record.
\* deadlock: the store fails the statement to end a cycle of waits.
row_level_step(df, j, seen, s, st, deadlock) ==
  LET r  == df[j]
      k  == r.id_transacao
      i  == BatchStart(j)
      other     == r.err = "data" \/ deadlock
      integrity == r.err = "check" \/ uk_transacao_id(seen, k)
  IN
  IF other
    THEN \* except Exception: the rest of the batch is abandoned
         [ stats |-> RowBatchFailed(st, BatchLen(df, i)),
           session |-> Rollback,
           pos |-> i + etl_batch_size + 1,
           flushed |-> FALSE ]
  ELSE IF integrity
    THEN \* except IntegrityError: counted as a duplicate
         [ stats |-> [st EXCEPT !.skipped = @ + 1],
           session |-> Rollback,
           pos |-> j + 1,
           flushed |-> FALSE ]
  ELSE   [ stats |-> [st EXCEPT !.inserted = @ + 1],
           session |-> [s EXCEPT !.rows[k] = @ + 1],
           pos |-> j + 1,
           flushed |-> TRUE ]

\* session.add + session.flush of one record.
insert_batch(p) ==
  LET df == DataFrame(args[p].file_hash)
      nx == row_level_step(df, pos[p], Visible(p), session[p], stats[p],
                           Deadlock(p))
  IN
  /\ UNCHANGED outside_loader
  /\ UNCHANGED staging
  /\ pc[p] = "insert"
  /\ args[p].strategy = "row"
  /\ nx.flushed => ~ Waits(p)
  /\ stats' = [stats EXCEPT ![p] = nx.stats]
  /\ session' = [session EXCEPT ![p] = nx.session]
  /\ pos' = [pos EXCEPT ![p] = nx.pos]
  /\ pc' = [pc EXCEPT ![p] = AfterInsert(df, nx.pos)]
  /\ UNCHANGED << transacoes, logs_etl, arquivos_processados, log_seq, calls,
                  args, log, result, steps >>

\* --- insert_batch_bulk: one INSERT .. ON CONFLICT DO NOTHING per batch ----

\* Rows a statement over batch adds, given the rows it sees: a row whose key
\* collides (with the table or with an earlier row of the statement) is
\* left out.
RECURSIVE on_conflict_do_nothing(_, _, _)
on_conflict_do_nothing(batch, seen, added) ==
  IF batch = << >> THEN added
  ELSE LET k == Head(batch).id_transacao IN
       IF uk_transacao_id(AddRows(seen, added), k)
         THEN on_conflict_do_nothing(Tail(batch), seen, added)
         ELSE on_conflict_do_nothing(Tail(batch), seen,
                                     [added EXCEPT ![k] = @ + 1])

\* A batch that gives partial credit: the rows before the first one the
\* store rejects are counted as inserted, the rest as failed.
set_based_step_partial_credit(df, i, seen, s, st, deadlock) ==
  LET batch == SubSeq(df, i + 1, i + BatchLen(df, i))
      bad   == FirstBad(batch, 1)
      good  == SubSeq(batch, 1, Min(bad, Len(batch) + 1) - 1)
      added == on_conflict_do_nothing(good, seen, NoRows)
      inserted == RowCount(added)
  IN
  IF deadlock
    THEN [ stats |-> [st EXCEPT !.failed = @ + Len(batch)],
           session |-> Rollback,
           pos |-> i + etl_batch_size + 1 ]
    ELSE [ stats |-> [st EXCEPT !.inserted = @ + inserted,
                                !.skipped = @ + Len(good) - inserted,
                                !.failed = @ + Len(batch) - Len(good)],
           session |-> [s EXCEPT !.rows = AddRows(@, added)],
           pos |-> i + etl_batch_size + 1 ]

\* The statement of the batch at offset i of df in a session that sees the
\* rows seen: the counters, the session and the index after the batch.
set_based_step(df, i, seen, s, st, deadlock) ==
  LET batch == SubSeq(df, i + 1, i + BatchLen(df, i))
      added == on_conflict_do_nothing(batch, seen, NoRows)
      inserted == RowCount(added)
  IN
  IF deadlock \/ FirstBad(batch, 1) <= Len(batch)
    THEN [ stats |-> [st EXCEPT !.failed = @ + Len(batch)],
           session |-> Rollback,
           pos |-> i + etl_batch_size + 1 ]
    ELSE [ stats |-> [st EXCEPT !.inserted = @ + inserted,
                                !.skipped = @ + Len(batch) - inserted],
           session |-> [s EXCEPT !.rows = AddRows(@, added)],
           pos |-> i + etl_batch_size + 1 ]

insert_batch_bulk(p) ==
  LET df == DataFrame(args[p].file_hash)
      nx == set_based_step(df, pos[p] - 1, Visible(p), session[p], stats[p],
                           Deadlock(p))
  IN
  /\ UNCHANGED outside_loader
  /\ UNCHANGED staging
  /\ pc[p] = "insert"
  /\ args[p].strategy = "bulk"
  /\ Deadlock(p) \/ ~ Waits(p)
  /\ stats' = [stats EXCEPT ![p] = nx.stats]
  /\ session' = [session EXCEPT ![p] = nx.session]
  /\ pos' = [pos EXCEPT ![p] = nx.pos]
  /\ pc' = [pc EXCEPT ![p] = AfterInsert(df, nx.pos)]
  /\ UNCHANGED << transacoes, logs_etl, arquivos_processados, log_seq, calls,
                  args, log, result, steps >>

\* --- load: finalize, register, commit ------------------------------------

\* The flush of commit passes: the registry row finds its log and its name
\* is free.
CommitPasses(p) ==
  /\ fk_id_log_etl(p, log[p].id_log)
  /\ ~ uq_nome_arquivo(args[p].file_name)

load_finalize(p) ==
  LET df == DataFrame(args[p].file_hash)
      st == stats[p]
      l  == update_log_entry(log[p], FinalStatus(st), Len(df), st.inserted,
                             st.failed, st.skipped, NULL, args[p].strategy)
  IN
  /\ UNCHANGED outside_loader
  /\ UNCHANGED staging
  /\ pc[p] = "finalize"
  /\ log' = [log EXCEPT ![p] = l]
  /\ IF CommitPasses(p)
       THEN /\ transacoes' = AddRows(transacoes, session[p].rows)
            /\ logs_etl' = IF session[p].log_row THEN logs_etl \cup {l} ELSE logs_etl
            /\ arquivos_processados' = arquivos_processados \cup
                 {ArquivoProcessado(args[p].file_name, args[p].file_hash, l.id_log)}
            /\ result' = [result EXCEPT ![p] =
                 LoadResult(TRUE, st.inserted, st.skipped, st.failed, NULL, l.id_log)]
       ELSE \* except Exception: session.rollback()
            /\ UNCHANGED << transacoes, logs_etl, arquivos_processados >>
            /\ result' = [result EXCEPT ![p] = LoadResult(FALSE, 0, 0, 0, "exception", 0)]
  /\ session' = [session EXCEPT ![p] = NoSession]
  /\ stats' = [stats EXCEPT ![p] = NoStats]
  /\ pos' = [pos EXCEPT ![p] = 1]
  /\ pc' = [pc EXCEPT ![p] = "done"]
  /\ steps' = [steps EXCEPT ![p] =
        @ \o << "update_log_entry", "register_file_processed", "commit" >>]
  /\ UNCHANGED << log_seq, calls, args >>

\* --- load_via_copy -------------------------------------------------------

\* The committed log row with the id of l replaced by l.
ReplaceLog(l) == {x \in logs_etl : x.id_log # l.id_log} \cup {l}

\* Names of the staging files: transacoes_copy_<YYYYmmdd_HHMMSS>.csv, one
\* name per second of the clock.
Stamps == {1, 2}

NoFile == 0

CopyRunning(q) == pc[q] \in {"copy", "copy_done", "copy_failed"}

\* datetime.now().strftime('%Y%m%d_%H%M%S') when p writes its staging file:
\* the second in which another running load wrote its file, or another one.
StampNow(p) ==
  IF \E q \in Procs \ {p} : CopyRunning(q) THEN Stamps ELSE {1}

\* temp_path.unlink() if the file exists.
unlink(dir, name) == [dir EXCEPT ![name] = NoFile]

\* load_via_copy past the gate: the records are written to the staging
\* file, then the log is created and committed in a session of its own.
copy_begin(p, file_name, file_hash, use_bulk, etl_use_copy) ==
  /\ UNCHANGED outside_loader
  /\ CanCall(p)
  /\ \E stamp \in StampNow(p) :
       /\ temp_path' = [temp_path EXCEPT ![p] = stamp]
       /\ temp_files' = [temp_files EXCEPT ![stamp] = calculate_file_hash(file_hash)]
  /\ UseCopy(etl_use_copy, DataFrame(file_hash))
  /\ ~ check_file_processed(file_hash)
  /\ calls' = calls + 1
  /\ args' = [args EXCEPT ![p] =
        Args(file_name, calculate_file_hash(file_hash), Strategy(use_bulk, TRUE))]
  /\ log_seq' = log_seq + 1
  /\ log' = [log EXCEPT ![p] =
        LogETL(log_seq + 1, file_name, file_hash, "EM_ANDAMENTO")]
  /\ logs_etl' = logs_etl \cup
        {LogETL(log_seq + 1, file_name, file_hash, "EM_ANDAMENTO")}
  /\ result' = [result EXCEPT ![p] = NoResult]
  /\ pc' = [pc EXCEPT ![p] = "copy"]
  /\ steps' = [steps EXCEPT ![p] =
        << "ensure_tables_exist", "check_file_processed", "create_log_entry",
           "commit" >>]
  /\ UNCHANGED << transacoes, arquivos_processados, session, stats, pos >>

\* COPY of the rows, in order, into the rows already seen: the statement
\* fails as a whole when a row is rejected or its key collides.
RECURSIVE copy_expert(_, _)
copy_expert(rows, seen) ==
  IF rows = << >> THEN [ok |-> TRUE, rows |-> seen]
  ELSE LET r == Head(rows) IN
       IF r.err # "ok" \/ uk_transacao_id(seen, r.id_transacao)
         THEN [ok |-> FALSE, rows |-> seen]
         ELSE copy_expert(Tail(rows), [seen EXCEPT ![r.id_transacao] = @ + 1])

\* _copy_from_csv: COPY transacoes FROM STDIN on a connection of its own,
\* committed at once.
copy_from_csv(p) ==
  LET staged == temp_files[temp_path[p]]
      after  == IF staged = NoFile
                  THEN [ok |-> FALSE, rows |-> transacoes]
                  ELSE copy_expert(DataFrame(staged), transacoes)
  IN
  /\ UNCHANGED outside_loader
  /\ UNCHANGED staging
  /\ pc[p] = "copy"
  /\ ~ Waits(p)
  /\ IF after.ok
       THEN /\ pc' = [pc EXCEPT ![p] = "copy_done"]
            /\ transacoes' = after.rows
       ELSE /\ pc' = [pc EXCEPT ![p] = "copy_failed"]
            /\ UNCHANGED transacoes
  /\ steps' = [steps EXCEPT ![p] = Append(@, InsertStep(args[p].strategy))]
  /\ UNCHANGED << logs_etl, arquivos_processados, log_seq, calls, args,
                  session, log, stats, pos, result >>

\* After the COPY: the log is updated to SUCESSO and the file registered in
\* one session; a failing commit leads to the except branch.
copy_finalize(p) ==
  LET n == Len(DataFrame(args[p].file_hash))
      l == update_log_entry(log[p], "SUCESSO", n, n, 0, 0, NULL, args[p].strategy)
  IN
  /\ UNCHANGED outside_loader
  /\ pc[p] = "copy_done"
  /\ IF ~ uq_nome_arquivo(args[p].file_name)
       THEN /\ temp_files' = unlink(temp_files, temp_path[p])
            /\ temp_path' = [temp_path EXCEPT ![p] = NoFile]
            /\ logs_etl' = ReplaceLog(l)
            /\ arquivos_processados' = arquivos_processados \cup
                 {ArquivoProcessado(args[p].file_name, args[p].file_hash, l.id_log)}
            /\ log' = [log EXCEPT ![p] = l]
            /\ result' = [result EXCEPT ![p] = LoadResult(TRUE, n, 0, 0, NULL, l.id_log)]
            /\ pc' = [pc EXCEPT ![p] = "done"]
       ELSE /\ pc' = [pc EXCEPT ![p] = "copy_failed"]
            /\ UNCHANGED << logs_etl, arquivos_processados, log, result >>
            /\ UNCHANGED staging
  /\ steps' = [steps EXCEPT ![p] =
        @ \o << "update_log_entry", "register_file_processed", "commit" >>]
  /\ UNCHANGED << transacoes, log_seq, calls, args, session, stats, pos >>

\* except Exception of load_via_copy: the log is set to ERRO and committed.
copy_error(p) ==
  LET n == Len(DataFrame(args[p].file_hash))
      l == update_log_entry(log[p], "ERRO", n, 0, n, 0, "exception", NULL)
  IN
  /\ UNCHANGED outside_loader
  /\ pc[p] = "copy_failed"
  /\ temp_files' = unlink(temp_files, temp_path[p])
  /\ temp_path' = [temp_path EXCEPT ![p] = NoFile]
  /\ logs_etl' = ReplaceLog(l)
  /\ log' = [log EXCEPT ![p] = l]
  /\ result' = [result EXCEPT ![p] = LoadResult(FALSE, 0, 0, 0, "exception", 0)]
  /\ pc' = [pc EXCEPT ![p] = "done"]
  /\ steps' = [steps EXCEPT ![p] = @ \o << "update_log_entry", "commit" >>]
  /\ UNCHANGED << transacoes, arquivos_processados, log_seq, calls, args,
                  session, stats, pos >>

\* --- the process stops ---------------------------------------------------

Running(p) == pc[p] \in {"insert", "finalize", "copy", "copy_done", "copy_failed"}

\* The invocation dies: the store undoes its open transaction.  "crashed":
\* it died inside the insert step; "stopped": it died after it.
crash(p) ==
  /\ UNCHANGED outside_loader
  /\ Running(p)
  /\ temp_path' = [temp_path EXCEPT ![p] = NoFile]
  /\ UNCHANGED temp_files
  /\ pc' = [pc EXCEPT ![p] = IF pc[p] \in {"insert", "copy"} THEN "crashed" ELSE "stopped"]
  /\ session' = [session EXCEPT ![p] = NoSession]
  /\ stats' = [stats EXCEPT ![p] = NoStats]
  /\ pos' = [pos EXCEPT ![p] = 1]
  /\ UNCHANGED << transacoes, logs_etl, arquivos_processados, log_seq, calls,
                  args, log, result, steps >>

\* ------------------------------------------------------------------------
\* Specification of the loader
\* ------------------------------------------------------------------------
\* The transformer, the orchestrator and the side-by-side run at rest.
NoTransformStats ==
  [ registros_removidos_por_nulos_criticos |-> 0,
    duplicates_removed |-> 0,
    valores_negativos |-> 0,
    datas_futuras |-> 0,
    pagamento_antes_transacao |-> 0,
    total_removidos |-> 0,
    success |-> FALSE,
    records_input |-> 0,
    records_output |-> 0,
    records_removed |-> 0 ]

TransformerIdle ==
  /\ raw = << >>
  /\ frame = << >>
  /\ tpc = "idle"
  /\ tstats = NoTransformStats
  /\ raw_columns = << >>
  /\ columns = << >>

PipelineIdle ==
  /\ files = << >>
  /\ results = << >>
  /\ run_pc = "idle"
  /\ exit_code = 0
  /\ settings = [etl_use_copy |-> FALSE]
  /\ summary = [success_count |-> 0, failed_count |-> 0,
                total_extracted |-> 0, total_loaded |-> 0]
  /\ loads = << >>

ParityIdle == parity = [phase |-> "idle"]

LoaderIdle ==
  /\ transacoes = NoRows
  /\ logs_etl = {}
  /\ arquivos_processados = {}
  /\ log_seq = 0
  /\ calls = 0
  /\ pc = [p \in Procs |-> "idle"]
  /\ args = [p \in Procs |-> NoArgs]
  /\ session = [p \in Procs |-> NoSession]
  /\ log = [p \in Procs |-> NoLog]
  /\ stats = [p \in Procs |-> NoStats]
  /\ pos = [p \in Procs |-> 1]
  /\ result = [p \in Procs |-> NoResult]
  /\ steps = [p \in Procs |-> << >>]
  /\ temp_files = [name \in Stamps |-> NoFile]
  /\ temp_path = [p \in Procs |-> NoFile]

Init ==
  /\ LoaderIdle
  /\ TransformerIdle
  /\ PipelineIdle
  /\ ParityIdle

Call(p) ==
  \E f \in Files, use_bulk \in BOOLEAN, etl_use_copy \in BOOLEAN :
    \/ load_already_processed(p, f[1], f[2], use_bulk, etl_use_copy)
    \/ load_begin(p, f[1], f[2], use_bulk, etl_use_copy)
    \/ copy_begin(p, f[1], f[2], use_bulk, etl_use_copy)

Step(p) ==
  \/ load_unreachable(p)
  \/ insert_batch(p)
  \/ insert_batch_bulk(p)
  \/ load_finalize(p)
  \/ copy_from_csv(p)
  \/ copy_finalize(p)
  \/ copy_error(p)
  \/ crash(p)

Next == \E p \in Procs : Call(p) \/ Step(p)

Spec == Init /\ [][Next]_vars

\* ------------------------------------------------------------------------
\* DataTransformer (src/scripts/transform.py): cells and conversions
\* ------------------------------------------------------------------------
MaxRows == 3

\* A text is a sequence of characters.  A cell of an object column holds a
\* text or is missing (NaN / None).
Text(s) == [na |-> FALSE, s |-> s]
NaN == [na |-> TRUE, s |-> << >>]

\* A date cell as read from the file: the text "a/b/y", another text, or
\* missing.
DateText(a, b, y) == [kind |-> "date", a |-> a, b |-> b, y |-> y]
OtherText == [kind |-> "text", a |-> 0, b |-> 0, y |-> 0]
NoDate == [kind |-> "na", a |-> 0, b |-> 0, y |-> 0]

\* A datetime64 value, NaT when nat.
Timestamp(y, m, d) == [nat |-> FALSE, y |-> y, m |-> m, d |-> d]
NaT == [nat |-> TRUE, y |-> 0, m |-> 0, d |-> 0]

\* A float64 value: m / 10^e, NaN when nan.
Number(m, e) == [nan |-> FALSE, m |-> m, e |-> e]
NotANumber == [nan |-> TRUE, m |-> 0, e |-> 0]

\* datetime.now()
Now == Timestamp(2025, 6, 15)

IsLeap(y) == (y % 4 = 0 /\ y % 100 # 0) \/ y % 400 = 0

DaysIn(m, y) ==
  IF m = 2 THEN (IF IsLeap(y) THEN 29 ELSE 28)
  ELSE IF m \in {4, 6, 9, 11} THEN 30 ELSE 31

ValidDate(y, m, d) == m \in 1..12 /\ d >= 1 /\ d <= DaysIn(m, y)

\* pd.to_datetime(errors="coerce", dayfirst=True, format="mixed"): the day
\* is read first when that gives a date, the month first otherwise; what
\* is not a date becomes NaT.
to_datetime(c) ==
  IF c.kind # "date" THEN NaT
  ELSE IF ValidDate(c.y, c.b, c.a) THEN Timestamp(c.y, c.b, c.a)
  ELSE IF ValidDate(c.y, c.a, c.b) THEN Timestamp(c.y, c.a, c.b)
  ELSE NaT

\* Order of two timestamps, neither NaT.
Ord(t) == (t.y * 12 + t.m) * 31 + t.d

\* Series.astype(str): a missing value becomes the text "nan".
astype_str(c) == IF c.na THEN Text(<< "n", "a", "n" >>) ELSE Text(c.s)

\* str.replace(old, new, regex=False) on a text.
RECURSIVE str_replace(_, _, _)
str_replace(s, old, new) ==
  IF Len(s) < Len(old) THEN s
  ELSE IF SubSeq(s, 1, Len(old)) = old
    THEN new \o str_replace(SubSeq(s, Len(old) + 1, Len(s)), old, new)
    ELSE << Head(s) >> \o str_replace(Tail(s), old, new)

\* str.strip()
RECURSIVE str_strip(_)
str_strip(s) ==
  IF s = << >> THEN s
  ELSE IF Head(s) = " " THEN str_strip(Tail(s))
  ELSE IF s[Len(s)] = " " THEN str_strip(SubSeq(s, 1, Len(s) - 1))
  ELSE s

Digits == << "0", "1", "2", "3", "4", "5", "6", "7", "8", "9" >>

IsDigit(c) == \E i \in 1..10 : Digits[i] = c

DigitValue(c) == (CHOOSE i \in 1..10 : Digits[i] = c) - 1

\* Value of a sequence of digits.
RECURSIVE DigitsValue(_)
DigitsValue(s) ==
  IF s = << >> THEN 0
  ELSE DigitsValue(SubSeq(s, 1, Len(s) - 1)) * 10 + DigitValue(s[Len(s)])

\* Position of the first "." of s, 0 if none.
RECURSIVE PointAt(_, _)
PointAt(s, i) ==
  IF i > Len(s) THEN 0 ELSE IF s[i] = "." THEN i ELSE PointAt(s, i + 1)

\* m / 10^e without trailing zeros in the fraction.
RECURSIVE Normalized(_, _)
Normalized(m, e) ==
  IF e > 0 /\ m % 10 = 0 THEN Normalized(m \div 10, e - 1) ELSE Number(m, e)

\* pd.to_numeric(errors="coerce") of a text: an optional sign, digits and at
\* most one decimal point give a number; anything else ("nan" and the empty
\* text included) gives NaN.
to_numeric(s) ==
  LET neg   == s # << >> /\ Head(s) = "-"
      body  == IF neg THEN Tail(s) ELSE s
      p     == PointAt(body, 1)
      whole == IF p = 0 THEN body ELSE SubSeq(body, 1, p - 1)
      frac  == IF p = 0 THEN << >> ELSE SubSeq(body, p + 1, Len(body))
      ds    == whole \o frac
  IN
  IF ds = << >> \/ \E i \in 1..Len(ds) : ~ IsDigit(ds[i]) THEN NotANumber
  ELSE Normalized((IF neg THEN -1 ELSE 1) * DigitsValue(ds), Len(frac))

\* The amount as convert_data_types reads it: text, then "R$", blanks and
\* "." removed, "," turned into ".", then to_numeric.
convert_valor(c) ==
  to_numeric(
    str_replace(
      str_replace(
        str_replace(
          str_replace(astype_str(c).s, << "R", "$" >>, << >>),
          << " " >>, << >>),
        << "." >>, << >>),
      << "," >>, << "." >>))

\* ------------------------------------------------------------------------
\* DataTransformer: the stages of transform
\* ------------------------------------------------------------------------
\* A row of the DataFrame handed to transform.
RawRow(id, date, valor, payment) ==
  [ id_transacao |-> id, data_transacao |-> date, valor |-> valor,
    data_pagamento |-> payment ]

T1 == Text(<< "T", "1" >>)
T2 == Text(<< "T", "2" >>)

\* The rows the inputs are made of: valid rows sharing a key, amounts in
\* both notations, a payment before its transaction, a negative amount, a
\* future date, and a missing key, date and amount.
SampleRows ==
  { RawRow(T1, DateText(10, 1, 2024),
           Text(<< "R", "$", " ", "2", ".", "5", "0", "0", ",", "0", "0" >>), NoDate),
    RawRow(T1, DateText(15, 1, 2024), Text(<< "5", "0", ".", "0", "0" >>),
           DateText(20, 1, 2024)),
    RawRow(T2, DateText(20, 1, 2024), Text(<< "1", "5", "0" >>),
           DateText(5, 1, 2024)),
    RawRow(T1, DateText(21, 1, 2024), Text(<< "-", "1", "0", ",", "0", "0" >>), NoDate),
    RawRow(T2, DateText(1, 1, 2030), Text(<< "1", "5", "0" >>), NoDate),
    RawRow(NaN, DateText(22, 1, 2024), Text(<< "1", "5", "0" >>), NoDate),
    RawRow(T1, OtherText, Text(<< "1", "5", "0" >>), NoDate),
    RawRow(T2, DateText(23, 1, 2024), NaN, NoDate) }

Inputs == UNION {[1..n -> SampleRows] : n \in 0..MaxRows}

\* The columns of the DataFrame of extract_file: the required columns, the
\* optional data_pagamento when the file has it, and the two columns
\* extract_file adds.
ExtractedColumns(has_payment) ==
  << "id_transacao", "data_transacao", "cliente", "produto", "categoria",
     "valor", "status_pagamento" >>
  \o (IF has_payment THEN << "data_pagamento" >> ELSE << >>)
  \o << "_arquivo_origem", "_arquivo_hash" >>

\* col in df.columns
Has(cols, col) == \E i \in 1..Len(cols) : cols[i] = col

\* The DataFrame with its index: row i of the input carries label i.
Indexed(rows) == [i \in 1..Len(rows) |-> [row |-> i] @@ rows[i]]

\* transform: records_input = len(df)
transform_begin ==
  /\ tpc = "begin"
  /\ frame' = Indexed(raw)
  /\ tstats' = [NoTransformStats EXCEPT !.records_input = Len(raw)]
  /\ tpc' = "standardize"
  /\ columns' = raw_columns
  /\ UNCHANGED << raw, raw_columns >>
  /\ UNCHANGED << loader_vars, pipeline_vars, parity >>

\* 1. standardize_column_names: the rows are kept; the names, which
\* extract_file has lower-cased and stripped and which hold no blank and no
\* hyphen, are renamed to themselves.
standardize_column_names ==
  /\ tpc = "standardize"
  /\ tpc' = "convert"
  /\ UNCHANGED << raw, frame, tstats, raw_columns, columns >>
  /\ UNCHANGED << loader_vars, pipeline_vars, parity >>

\* 2. convert_data_types
convert_row(r) ==
  [ r EXCEPT !.data_transacao = to_datetime(@),
             !.data_pagamento = to_datetime(@),
             !.valor = convert_valor(@),
             !.id_transacao = Text(str_strip(astype_str(@).s)) ]

\* The cell of a column the DataFrame does not have is held as NaT; the
\* stages read it only where the code reads the column.
convert_data_types ==
  /\ tpc = "convert"
  /\ frame' = [i \in 1..Len(frame) |->
                 IF Has(columns, "data_pagamento")
                   THEN convert_row(frame[i])
                   ELSE [convert_row(frame[i]) EXCEPT !.data_pagamento = NaT]]
  /\ tpc' = "nulls"
  /\ UNCHANGED << raw, tstats, raw_columns, columns >>
  /\ UNCHANGED << loader_vars, pipeline_vars, parity >>

\* dropna over the critical columns id_transacao, data_transacao, valor.
critical_not_null(r) ==
  ~ r.id_transacao.na /\ ~ r.data_transacao.nat /\ ~ r.valor.nan

\* 3. handle_null_values
handle_null_values ==
  LET kept == SelectSeq(frame, critical_not_null) IN
  /\ tpc = "nulls"
  /\ frame' = kept
  /\ tstats' = [tstats EXCEPT !.registros_removidos_por_nulos_criticos =
                                 Len(frame) - Len(kept)]
  /\ tpc' = "status"
  /\ UNCHANGED << raw, raw_columns, columns >>
  /\ UNCHANGED << loader_vars, pipeline_vars, parity >>

\* 4. normalize_payment_status: a column is rewritten, the rows kept.
normalize_payment_status ==
  /\ tpc = "status"
  /\ tpc' = "derived"
  /\ UNCHANGED << raw, frame, tstats, raw_columns, columns >>
  /\ UNCHANGED << loader_vars, pipeline_vars, parity >>

\* Series.dt.dayofweek: 0 = Monday .. 6 = Sunday.
dayofweek(t) ==
  LET shift == << 0, 3, 2, 5, 0, 3, 5, 1, 4, 6, 2, 4 >>
      y == IF t.m < 3 THEN t.y - 1 ELSE t.y
      sunday0 == (y + (y \div 4) - (y \div 100) + (y \div 400) + shift[t.m] + t.d) % 7
  IN (sunday0 + 6) % 7

\* 5. create_derived_columns
create_derived_columns ==
  /\ tpc = "derived"
  /\ frame' = [i \in 1..Len(frame) |->
        LET t == frame[i].data_transacao IN
        [ ano_transacao |-> t.y, mes_transacao |-> t.m,
          dia_semana |-> dayofweek(t), trimestre |-> ((t.m - 1) \div 3) + 1 ]
        @@ frame[i]]
  /\ columns' = columns \o << "ano_transacao", "mes_transacao", "dia_semana",
                              "trimestre" >>
  /\ tpc' = "dedup"
  /\ UNCHANGED << raw, tstats, raw_columns >>
  /\ UNCHANGED << loader_vars, pipeline_vars, parity >>

\* drop_duplicates keeping the last row of each key.
RECURSIVE drop_duplicates_keep_last(_, _)
drop_duplicates_keep_last(rows, seen) ==
  IF rows = << >> THEN << >>
  ELSE LET r == rows[Len(rows)]
           front == SubSeq(rows, 1, Len(rows) - 1)
       IN IF r.id_transacao \in seen
            THEN drop_duplicates_keep_last(front, seen)
            ELSE drop_duplicates_keep_last(front, seen \cup {r.id_transacao})
                 \o << r >>

\* df.drop_duplicates(subset=["id_transacao"], keep="first")
RECURSIVE drop_duplicates(_, _)
drop_duplicates(rows, seen) ==
  IF rows = << >> THEN << >>
  ELSE IF Head(rows).id_transacao \in seen
    THEN drop_duplicates(Tail(rows), seen)
    ELSE << Head(rows) >>
         \o drop_duplicates(Tail(rows), seen \cup {Head(rows).id_transacao})

\* 6. remove_duplicates
remove_duplicates ==
  LET kept == drop_duplicates(frame, {}) IN
  /\ tpc = "dedup"
  /\ frame' = kept
  /\ tstats' = [tstats EXCEPT !.duplicates_removed = Len(frame) - Len(kept)]
  /\ tpc' = "validate"
  /\ UNCHANGED << raw, raw_columns, columns >>
  /\ UNCHANGED << loader_vars, pipeline_vars, parity >>

not_negative(r) == ~ (r.valor.m < 0)

\* A validation that lets every date pass.
any_date(r) == TRUE

not_future(r) == ~ (Ord(r.data_transacao) > Ord(Now))

\* has_payment & (data_pagamento < data_transacao)
invalid_payment(r) ==
  /\ ~ r.data_pagamento.nat
  /\ Ord(r.data_pagamento) < Ord(r.data_transacao)

\* The inverted payment date treated as the other two checks are: the rows
\* are removed.
repair_by_removal(rows) ==
  LET Keep(r) == ~ invalid_payment(r) IN SelectSeq(rows, Keep)

\* df.loc[invalid_payment, "data_pagamento"] = data_transacao
repair_payment(rows) ==
  [i \in 1..Len(rows) |->
     IF invalid_payment(rows[i])
       THEN [rows[i] EXCEPT !.data_pagamento = rows[i].data_transacao]
       ELSE rows[i]]

\* 7. validate_data_quality
validate_data_quality ==
  LET positive == SelectSeq(frame, not_negative)
      dated    == SelectSeq(positive, not_future)
      checked  == Has(columns, "data_pagamento")
      inverted == IF checked
                    THEN Len(dated) - Len(SelectSeq(dated, LAMBDA r : ~ invalid_payment(r)))
                    ELSE 0
      valid    == IF checked THEN repair_payment(dated) ELSE dated
  IN
  /\ tpc = "validate"
  /\ frame' = valid
  /\ tstats' = [tstats EXCEPT !.valores_negativos = Len(frame) - Len(positive),
                              !.datas_futuras = Len(positive) - Len(dated),
                              !.pagamento_antes_transacao = inverted,
                              !.total_removidos = Len(frame) - Len(valid)]
  /\ tpc' = "final"
  /\ UNCHANGED << raw, raw_columns, columns >>
  /\ UNCHANGED << loader_vars, pipeline_vars, parity >>

\* final_columns of prepare_final_columns, in the order of the schema.
final_columns ==
  << "id_transacao", "data_transacao", "cliente", "produto", "categoria",
     "valor", "status_pagamento", "data_pagamento", "ano_transacao",
     "mes_transacao", "dia_semana", "trimestre", "_arquivo_origem" >>

\* df.rename(columns={"_arquivo_origem": "arquivo_origem"})
rename(cols) ==
  [i \in 1..Len(cols) |->
     IF cols[i] = "_arquivo_origem" THEN "arquivo_origem" ELSE cols[i]]

\* 8. prepare_final_columns, then the TransformationResult.  The columns to
\* keep are chosen before data_pagamento is added to a DataFrame without it.
prepare_final_columns ==
  LET available_columns == SelectSeq(final_columns, LAMBDA c : Has(columns, c))
      with_payment == IF Has(columns, "data_pagamento")
                        THEN columns
                        ELSE Append(columns, "data_pagamento")
      selected == SelectSeq(available_columns, LAMBDA c : Has(with_payment, c))
  IN
  /\ tpc = "final"
  /\ columns' = rename(selected)
  /\ tstats' = [tstats EXCEPT !.success = TRUE,
                              !.records_output = Len(frame),
                              !.records_removed = tstats.records_input - Len(frame)]
  /\ tpc' = "done"
  /\ UNCHANGED << raw, frame, raw_columns >>
  /\ UNCHANGED << loader_vars, pipeline_vars, parity >>

TransformInit ==
  /\ LoaderIdle
  /\ PipelineIdle
  /\ ParityIdle
  /\ raw_columns \in {ExtractedColumns(TRUE), ExtractedColumns(FALSE)}
  /\ raw \in Inputs
  /\ Has(raw_columns, "data_pagamento")
       \/ \A i \in 1..Len(raw) : raw[i].data_pagamento = NoDate
  /\ columns = << >>
  /\ frame = << >>
  /\ tpc = "begin"
  /\ tstats = NoTransformStats

TransformNext ==
  \/ transform_begin
  \/ standardize_column_names
  \/ convert_data_types
  \/ handle_null_values
  \/ normalize_payment_status
  \/ create_derived_columns
  \/ remove_duplicates
  \/ validate_data_quality
  \/ prepare_final_columns

TransformSpec == TransformInit /\ [][TransformNext]_vars

\* ------------------------------------------------------------------------
\* ETLPipeline (src/scripts/main.py)
\* ------------------------------------------------------------------------
MaxFiles == 2
MaxRecords == 2

\* What the three stages do with a file of the batch.  extract_file and
\* transform return a result, successful or not, and never raise (their
\* bodies are inside try / except Exception).  load returns a LoadResult
\* ("ok": success with some records inserted; "already": the short-circuit;
\* "error": success = False) or raises: check_file_processed queries the
\* store outside any try, and so does the commit of the log in
\* load_via_copy.
FileOutcomes ==
  {[records |-> 0, output |-> 0, extract |-> "error", transform |-> NULL,
    load |-> NULL, inserted |-> 0]}
  \cup
  {[records |-> n, output |-> 0, extract |-> "ok", transform |-> "error",
    load |-> NULL, inserted |-> 0] : n \in 1..MaxRecords}
  \cup
  {[records |-> n, output |-> m, extract |-> "ok", transform |-> "ok",
    load |-> l, inserted |-> 0] :
      n \in 1..MaxRecords, m \in 0..MaxRecords, l \in {"already", "error", "raise"}}
  \cup
  {[records |-> n, output |-> m, extract |-> "ok", transform |-> "ok",
    load |-> "ok", inserted |-> k] :
      n \in 1..MaxRecords, m \in 0..MaxRecords, k \in 0..MaxRecords}

\* The transformer never adds records and the loader never inserts more
\* than it was given.
Batches ==
  UNION {[1..n -> {f \in FileOutcomes :
                     /\ f.output \in {f.records, f.records - 1} \/ f.transform # "ok"
                     /\ f.inserted <= f.output}] : n \in 0..MaxFiles}

\* An entry of the stats dictionary: None, or a dictionary of counts (of
\* which the model keeps the one the summary reads).
None == [set |-> FALSE, n |-> 0]
Some(n) == [set |-> TRUE, n |-> n]

\* The stats dictionary of process_file.
FileStats(file, success, extract, transform, load_stats, error) ==
  [file |-> file, success |-> success, extract |-> extract,
   transform |-> transform, load |-> load_stats, error |-> error]

\* The call self.loader.load(df, file_name, file_path, file_hash, file_size):
\* use_bulk is left to its default, True.
LoaderCall(i, n) ==
  [file |-> i, records |-> n, use_bulk |-> TRUE,
   strategy |-> Strategy(TRUE, settings.etl_use_copy /\ n >= etl_copy_threshold)]

\* process_file on file i, up to its return.
process_file_stats(i) ==
  LET f == files[i] IN
  IF f.extract = "error"
    THEN FileStats(i, FALSE, None, None, None, "Extração")
  ELSE IF f.transform = "error"
    THEN FileStats(i, FALSE, Some(f.records), None, None, "Transformação")
  ELSE IF f.load = "error"
    THEN FileStats(i, FALSE, Some(f.records), Some(f.output), None, "Carga")
  ELSE FileStats(i, TRUE, Some(f.records), Some(f.output),
                 Some(IF f.load = "already" THEN 0 ELSE f.inserted), NULL)

ReachesLoad(f) == f.extract = "ok" /\ f.transform = "ok"

\* run with no file to process: returns the empty list before any summary.
run_no_files ==
  /\ run_pc = "start"
  /\ files = << >>
  /\ run_pc' = "returned"
  /\ UNCHANGED << files, results, exit_code, settings, summary, loads >>
  /\ UNCHANGED << loader_vars, transformer_vars, parity >>

\* One turn of the loop of run: process_file returns and its stats are
\* appended.
process_file ==
  LET i == Len(results) + 1 IN
  /\ run_pc = "start"
  /\ i <= Len(files)
  /\ ~ (ReachesLoad(files[i]) /\ files[i].load = "raise")
  /\ results' = Append(results, process_file_stats(i))
  /\ loads' = IF ReachesLoad(files[i])
                THEN Append(loads, LoaderCall(i, files[i].output))
                ELSE loads
  /\ UNCHANGED << files, run_pc, exit_code, settings, summary >>
  /\ UNCHANGED << loader_vars, transformer_vars, parity >>

\* load raises inside process_file: neither process_file nor run catches
\* it, the interpreter ends with a traceback and status 1.
process_file_raises ==
  LET i == Len(results) + 1 IN
  /\ run_pc = "start"
  /\ i <= Len(files)
  /\ ReachesLoad(files[i]) /\ files[i].load = "raise"
  /\ loads' = Append(loads, LoaderCall(i, files[i].output))
  /\ run_pc' = "raised"
  /\ exit_code' = 1
  /\ UNCHANGED << files, results, settings, summary >>
  /\ UNCHANGED << loader_vars, transformer_vars, parity >>

\* sum(1 for r in results if r["success"])
RECURSIVE success_count(_)
success_count(rs) ==
  IF rs = << >> THEN 0
  ELSE (IF Head(rs).success THEN 1 ELSE 0) + success_count(Tail(rs))

\* sum(r["extract"]["records"] for r in results if r["extract"])
RECURSIVE total_extracted(_)
total_extracted(rs) ==
  IF rs = << >> THEN 0
  ELSE (IF Head(rs).extract.set THEN Head(rs).extract.n ELSE 0)
       + total_extracted(Tail(rs))

\* sum(r["load"]["inserted"] for r in results if r["load"])
RECURSIVE total_loaded(_)
total_loaded(rs) ==
  IF rs = << >> THEN 0
  ELSE (IF Head(rs).load.set THEN Head(rs).load.n ELSE 0)
       + total_loaded(Tail(rs))

\* The end of run: the summary is computed and the list returned.
run_summary ==
  /\ run_pc = "start"
  /\ files # << >>
  /\ Len(results) = Len(files)
  /\ summary' = [success_count |-> success_count(results),
                 failed_count |-> Len(results) - success_count(results),
                 total_extracted |-> total_extracted(results),
                 total_loaded |-> total_loaded(results)]
  /\ run_pc' = "returned"
  /\ UNCHANGED << files, results, exit_code, settings, loads >>
  /\ UNCHANGED << loader_vars, transformer_vars, parity >>

\* The mistake of counting only the files that failed in the load stage.
failed_in_load_only(r) == ~ r.success /\ r.error = "Carga"

\* A result counted as failed by main, whatever its stage.
failed_any_stage(r) == ~ r.success

\* sum(1 for r in results if not r["success"])
RECURSIVE failed_count(_)
failed_count(rs) ==
  IF rs = << >> THEN 0
  ELSE (IF failed_any_stage(Head(rs)) THEN 1 ELSE 0) + failed_count(Tail(rs))

\* main: sys.exit(1 if failed > 0 else 0)
main_exit ==
  /\ run_pc = "returned"
  /\ exit_code' = IF failed_count(results) > 0 THEN 1 ELSE 0
  /\ run_pc' = "exited"
  /\ UNCHANGED << files, results, settings, summary, loads >>
  /\ UNCHANGED << loader_vars, transformer_vars, parity >>

RunInit ==
  /\ LoaderIdle
  /\ TransformerIdle
  /\ ParityIdle
  /\ files \in Batches
  /\ settings \in [etl_use_copy : BOOLEAN]
  /\ results = << >>
  /\ run_pc = "start"
  /\ exit_code = 0
  /\ summary = [success_count |-> 0, failed_count |-> 0,
                total_extracted |-> 0, total_loaded |-> 0]
  /\ loads = << >>

RunNext ==
  \/ run_no_files
  \/ process_file
  \/ process_file_raises
  \/ run_summary
  \/ main_exit

RunSpec == RunInit /\ [][RunNext]_vars

\* ------------------------------------------------------------------------
\* The row-level and the set-based strategy side by side
\* ------------------------------------------------------------------------
MaxLen == 3

\* The ways the store reacts to a row (see Rec).
Reactions == {"ok", "check", "data"}

\* Record lists of up to n rows, keys repeated or not, any row valid or
\* rejected by the store.
RECURSIVE RecordLists(_)
RecordLists(n) ==
  IF n = 0 THEN {<< >>}
  ELSE RecordLists(n - 1) \cup
       {Append(l, Rec(k, e)) : l \in {x \in RecordLists(n - 1) : Len(x) = n - 1},
                               k \in Keys, e \in Reactions}

\* insert_batch over df from record j on, alone on the store.
RECURSIVE insert_batch_all(_, _, _, _, _)
insert_batch_all(df, j, committed, s, st) ==
  IF j > Len(df) THEN [session |-> s, stats |-> st]
  ELSE LET nx == row_level_step(df, j, AddRows(committed, s.rows), s, st, FALSE)
       IN insert_batch_all(df, nx.pos, committed, nx.session, nx.stats)

\* The batches of insert_batch_bulk over df from offset i on, alone on the
\* store: for every batch its offset and the session and the counters
\* before and after its statement.
RECURSIVE insert_batch_bulk_batches(_, _, _, _, _)
insert_batch_bulk_batches(df, i, committed, s, st) ==
  IF i >= Len(df) THEN << >>
  ELSE LET nx == set_based_step(df, i, AddRows(committed, s.rows), s, st, FALSE)
       IN << [ i |-> i, session |-> s, stats |-> st,
               session_after |-> nx.session, stats_after |-> nx.stats ] >>
          \o insert_batch_bulk_batches(df, nx.pos - 1, committed, nx.session, nx.stats)

\* insert_batch_bulk over df from offset i on, alone on the store.
RECURSIVE insert_batch_bulk_all(_, _, _, _, _)
insert_batch_bulk_all(df, i, committed, s, st) ==
  IF i >= Len(df) THEN [session |-> s, stats |-> st]
  ELSE LET nx == set_based_step(df, i, AddRows(committed, s.rows), s, st, FALSE)
       IN insert_batch_bulk_all(df, nx.pos - 1, committed, nx.session, nx.stats)

\* load of a file not yet registered, under a name not yet used, alone on
\* the store: the log is flushed, the strategy runs, and the commit passes
\* iff the log row is still in the transaction (the registry row refers to
\* it).  Gives the LoadResult and the rows of transacoes afterwards.
load_alone(df, committed, use_bulk) ==
  LET begun == [rows |-> NoRows, log_row |-> TRUE]
      after == IF use_bulk
                 THEN insert_batch_bulk_all(df, 0, committed, begun, NoStats)
                 ELSE insert_batch_all(df, 1, committed, begun, NoStats)
  IN
  IF after.session.log_row
    THEN [ result |-> LoadResult(TRUE, after.stats.inserted, after.stats.skipped,
                                 after.stats.failed, NULL, 1),
           stats |-> after.stats,
           transacoes |-> AddRows(committed, after.session.rows) ]
    ELSE [ result |-> LoadResult(FALSE, 0, 0, 0, "exception", 0),
           stats |-> after.stats,
           transacoes |-> committed ]

NotRun == [ result |-> NoResult, stats |-> NoStats, transacoes |-> NoRows ]

\* load(df, use_bulk = False) on the store.
load_row_level ==
  /\ parity.phase = "start"
  /\ ~ parity.row_done
  /\ parity' = [parity EXCEPT !.row_done = TRUE,
                              !.row = load_alone(parity.df, parity.store, FALSE)]
  /\ UNCHANGED << loader_vars, transformer_vars, pipeline_vars >>

\* load(df, use_bulk = True) on the same store.
load_set_based ==
  /\ parity.phase = "start"
  /\ ~ parity.bulk_done
  /\ parity' = [parity EXCEPT !.bulk_done = TRUE,
                              !.bulk = load_alone(parity.df, parity.store, TRUE)]
  /\ UNCHANGED << loader_vars, transformer_vars, pipeline_vars >>

ParityInit ==
  /\ LoaderIdle
  /\ TransformerIdle
  /\ PipelineIdle
  /\ parity \in [ phase : {"start"},
                  store : [Keys -> {0, 1}],
                  df : RecordLists(MaxLen),
                  row_done : {FALSE}, bulk_done : {FALSE},
                  row : {NotRun}, bulk : {NotRun} ]

ParityNext == load_row_level \/ load_set_based

ParitySpec == ParityInit /\ [][ParityNext]_vars

\* ------------------------------------------------------------------------
\* Properties
\* ------------------------------------------------------------------------
\* The registry holds a PROCESSADO entry for the content hash.
Registered(h) ==
  \E a \in arquivos_processados : a.hash_arquivo = h /\ a.status = "PROCESSADO"

\* A step in which p calls load for a file of hash h and reaches the store.
LoadCall(p, h) ==
  /\ calls' = calls + 1
  /\ args'[p].file_hash = h
  /\ pc[p] \notin {"insert", "finalize", "copy", "copy_done", "copy_failed"}
  /\ \E use_bulk \in BOOLEAN, etl_use_copy \in BOOLEAN :
       \/ load_already_processed(p, args'[p].file_name, h, use_bulk, etl_use_copy)
       \/ load_begin(p, args'[p].file_name, h, use_bulk, etl_use_copy)
       \/ copy_begin(p, args'[p].file_name, h, use_bulk, etl_use_copy)

\* C1: idempotence of load.  Once the content hash of a file has a
\* PROCESSADO registry entry, a load of a file with that hash leaves the
\* number of persisted transactions unchanged and returns success with
\* inserted = 0 and skipped = the number of records passed in.
C1_Idempotence ==
  [][\A p \in Procs, h \in Hashes :
       (Registered(h) /\ LoadCall(p, h)) =>
         /\ RowCount(transacoes') = RowCount(transacoes)
         /\ pc'[p] = "done"
         /\ result'[p].success
         /\ result'[p].records_inserted = 0
         /\ result'[p].records_skipped = Len(DataFrame(h))]_vars

\* A second load of a registered, non-empty file has returned with all its
\* records skipped.
C1_Witness ==
  \E p \in Procs :
    /\ pc[p] = "done"
    /\ result[p].error_message = "already"
    /\ result[p].records_skipped = Len(DataFrame(args[p].file_hash))
    /\ result[p].records_skipped > 0
    /\ RowCount(transacoes) > 0
    /\ args[p].strategy # "copy"

\* C2: uniqueness.  In every reachable state no two persisted transactions
\* share a business key, whatever strategy inserted them.
C2_Uniqueness == \A k \in Keys : transacoes[k] <= 1

\* A committed set-based load has skipped a repeated key, and a COPY of a
\* file with a persisted key has been refused.
C2_Witness ==
  /\ \E l \in logs_etl :
       /\ l.qtd_duplicatas_ignoradas > 0
       /\ l.qtd_registros_inseridos > 0
       /\ transacoes[2] = 1
  /\ \E l \in logs_etl : l.status_execucao = "ERRO" /\ l.mensagem_erro # NULL

\* C3: frame of the short-circuit.  A load (or load_via_copy) of a file
\* whose hash has a PROCESSADO entry leaves the execution logs, the
\* registry and the transactions as they were.
C3_ShortCircuitFrame ==
  [][\A p \in Procs, h \in Hashes :
       (Registered(h) /\ LoadCall(p, h)) =>
         /\ logs_etl' = logs_etl
         /\ arquivos_processados' = arquivos_processados
         /\ transacoes' = transacoes
         /\ log_seq' = log_seq]_vars

\* The gate of load_via_copy has short-circuited a call.
C3_Witness ==
  \E p \in Procs :
    /\ pc[p] = "done"
    /\ result[p].error_message = "already"
    /\ args[p].strategy = "copy"
    /\ logs_etl # {}

\* C4: a registry entry exists only for a load that did not finalize with
\* ERRO.  Every registry entry is linked to an execution log whose status is
\* SUCESSO or PARCIAL, and a load whose log was finalized ERRO has created
\* no registry entry.
C4_RegistryOnlyOnNonError ==
  /\ \A a \in arquivos_processados :
       \E l \in logs_etl :
         /\ l.id_log = a.id_log_etl
         /\ l.status_execucao \in {"SUCESSO", "PARCIAL"}
  /\ \A p \in Procs :
       (pc[p] = "done" /\ log[p].status_execucao = "ERRO") =>
         ~ \E a \in arquivos_processados : a.id_log_etl = log[p].id_log

\* A load has finalized ERRO, its hash has no registry entry, and another
\* file is registered.
C4_Witness ==
  \E p \in Procs :
    /\ pc[p] = "done"
    /\ log[p].status_execucao = "ERRO"
    /\ log[p].qtd_registros_rejeitados > 0
    /\ ~ Registered(args[p].file_hash)
    /\ arquivos_processados # {}

\* The call of p got past the idempotency gate and began an execution log.
PassedGate(p) == log[p].id_log # 0

\* The committed execution log of the current attempt of p, if any.
AttemptLogs(p) == {l \in logs_etl : l.id_log = log[p].id_log}

\* C5: crash and retry.  When the process stops during the insert step, the
\* store holds an EM_ANDAMENTO execution log of that attempt and no registry
\* entry made by it, and a load of the same file right after the crash gets
\* past the idempotency gate unless the hash has been registered meanwhile.
C5_CrashLeavesLogInProgress ==
  /\ [](\A p \in Procs :
          pc[p] = "crashed" =>
            /\ \E l \in AttemptLogs(p) : l.status_execucao = "EM_ANDAMENTO"
            /\ ~ \E a \in arquivos_processados : a.id_log_etl = log[p].id_log)
  /\ [][\A p \in Procs :
          (/\ pc[p] = "crashed"
           /\ ~ Registered(args[p].file_hash)
           /\ LoadCall(p, args[p].file_hash))
          => pc'[p] \in {"insert", "finalize", "copy"}]_vars

\* C6: finalize status rule.  The status written to the execution log at
\* finalize is ERRO iff failed > 0 and inserted = 0, PARCIAL iff failed > 0
\* and inserted > 0, SUCESSO iff failed = 0.
C6_FinalizeStatusRule ==
  \A p \in Procs :
    (pc[p] = "done" /\ PassedGate(p)) =>
      LET inserted == log[p].qtd_registros_inseridos
          failed   == log[p].qtd_registros_rejeitados
          status   == log[p].status_execucao
      IN /\ (status = "ERRO") <=> (failed > 0 /\ inserted = 0)
         /\ (status = "PARCIAL") <=> (failed > 0 /\ inserted > 0)
         /\ (status = "SUCESSO") <=> (failed = 0)

\* C7: every load that got past the gate has, when it returns, exactly one
\* persisted execution log of the attempt, finalized to SUCESSO, PARCIAL or
\* ERRO; persisted logs are never removed.
C7_OneFinalizedLogPerAttempt ==
  /\ [](\A p \in Procs :
          (pc[p] = "done" /\ PassedGate(p)) =>
            /\ Cardinality(AttemptLogs(p)) = 1
            /\ \A l \in AttemptLogs(p) :
                 l.status_execucao \in {"SUCESSO", "PARCIAL", "ERRO"})
  /\ [][\A l \in logs_etl : \E m \in logs_etl' : m.id_log = l.id_log]_vars

\* C8: a load that ends failing (log status ERRO or PARCIAL, or success =
\* false after the log was begun) has a persisted execution log carrying an
\* error text, the counts and the strategy used.
C8_FailureRecordedInLog ==
  \A p \in Procs :
    (/\ pc[p] = "done"
     /\ PassedGate(p)
     /\ \/ ~ result[p].success
        \/ log[p].status_execucao \in {"ERRO", "PARCIAL"}) =>
      \E l \in AttemptLogs(p) :
        /\ l.mensagem_erro # NULL
        /\ l.detalhes # NULL
        /\ l.qtd_registros_lidos = Len(DataFrame(args[p].file_hash))

\* C9: file identity is the content hash alone.  (a) A file whose hash is
\* registered is skipped, under whatever name; (b) a file whose hash no
\* other load has registered and whose records are all inserted is loaded
\* and registered, also when its name is the name of a registered file.
C9_IdentityIsContentHash ==
  /\ [][\A p \in Procs, h \in Hashes :
          (Registered(h) /\ LoadCall(p, h)) =>
            (pc'[p] = "done" /\ result'[p].error_message = "already")]_vars
  /\ [](\A p \in Procs :
          (/\ pc[p] = "done"
           /\ PassedGate(p)
           /\ args[p].strategy # "copy"
           /\ log[p].status_execucao = "SUCESSO"
           /\ log[p].qtd_registros_inseridos = Len(DataFrame(args[p].file_hash))
           /\ \A a \in arquivos_processados :
                a.hash_arquivo = args[p].file_hash => a.id_log_etl = log[p].id_log)
          => (result[p].success /\ Registered(args[p].file_hash)))

\* C10: the registry holds at most one entry per content hash, also when
\* two invocations for the same content run interleaved.
C10_OneEntryPerHash ==
  \A a, b \in arquivos_processados :
    a.hash_arquivo = b.hash_arquivo => a = b

\* Sum of the inserted counts of a set of execution logs.
RECURSIVE InsertedByLogs(_)
InsertedByLogs(ls) ==
  IF ls = {} THEN 0
  ELSE LET l == CHOOSE x \in ls : TRUE
       IN l.qtd_registros_inseridos + InsertedByLogs(ls \ {l})

\* C11: per-file atomicity.  In every durable state the execution log, the
\* transactions and the registry entry of a load are all present or all
\* absent, on every insert strategy: every persisted log has its registry
\* entry, every registry entry has its log, and the persisted transactions
\* are exactly those the persisted logs count as inserted.
C11_PerFileAtomicity ==
  /\ \A l \in logs_etl :
       \E a \in arquivos_processados : a.id_log_etl = l.id_log
  /\ \A a \in arquivos_processados :
       \E l \in logs_etl : l.id_log = a.id_log_etl
  /\ RowCount(transacoes) = InsertedByLogs(logs_etl)

\* A stage fails on the file: it returns an error result or raises.
FileFailed(f) ==
  \/ f.extract = "error"
  \/ f.transform = "error"
  \/ f.load \in {"error", "raise"}

\* C12: orchestrator fault isolation.  Whatever stage fails on file i, by
\* an error result or by raising, run returns a list with exactly one
\* result per input file, in input order, the result of every file that
\* failed being a failed one.
C12_FaultIsolation ==
  run_pc \in {"returned", "exited", "raised"} =>
    /\ run_pc # "raised"
    /\ Len(results) = Len(files)
    /\ \A i \in 1..Len(files) :
         /\ results[i].file = i
         /\ FileFailed(files[i]) => ~ results[i].success

\* Number of files of the batch no stage fails on.
RECURSIVE Succeeded(_)
Succeeded(fs) ==
  IF fs = << >> THEN 0
  ELSE (IF FileFailed(Head(fs)) THEN 0 ELSE 1) + Succeeded(Tail(fs))

\* Records inserted by the loads of the batch that succeeded.
RECURSIVE LoadedBy(_)
LoadedBy(fs) ==
  IF fs = << >> THEN 0
  ELSE (IF ~ FileFailed(Head(fs)) /\ Head(fs).load = "ok"
          THEN Head(fs).inserted ELSE 0) + LoadedBy(Tail(fs))

\* C13: run summary and outcome.  When run returns, files succeeded + files
\* failed = number of files processed, total loaded = the sum of the
\* inserted counts of the files whose load succeeded, and the exit status of
\* the process is non-zero iff at least one file failed (zero for a run with
\* no files or with only already-processed files).
C13_RunSummary ==
  /\ (run_pc \in {"returned", "exited"} /\ files # << >>) =>
       /\ summary.success_count + summary.failed_count = Len(files)
       /\ summary.success_count = Succeeded(files)
       /\ summary.total_loaded = LoadedBy(files)
  /\ run_pc \in {"exited", "raised"} =>
       (exit_code # 0 <=> \E i \in 1..Len(files) : FileFailed(files[i]))

\* A run over two files has ended with status 1: one file loaded records,
\* the other failed with an error result.
C13_Witness ==
  /\ run_pc = "exited"
  /\ exit_code = 1
  /\ summary.success_count = 1
  /\ summary.failed_count = 1
  /\ summary.total_loaded > 0

\* The strategy the claim gives a load of n records, for thresholds t1 < t2.
ClaimedStrategy(n, t1, t2) ==
  IF n < t1 THEN "row" ELSE IF n < t2 THEN "bulk" ELSE "copy"

\* C15: the insert strategy is a function of the record count only: there
\* are two thresholds t1 < t2 such that every load made by the pipeline is
\* row-level below t1, set-based from t1 and bulk-staged from t2, a load
\* of a single record being a small one (t1 >= 2).
C15_StrategyByRecordCount ==
  \E t1 \in 2..(MaxRecords + 1), t2 \in 3..(MaxRecords + 2) :
    /\ t1 < t2
    /\ \A i \in 1..Len(loads) :
         loads[i].strategy = ClaimedStrategy(loads[i].records, t1, t2)

\* C14: strategy parity.  From the same store and for the same record list
\* (keys already in the store or repeated in the list included), the load
\* by the row-level strategy and the load by the set-based strategy report
\* the same inserted count and leave the same persisted transactions.
C14_StrategyParity ==
  (parity.phase = "start" /\ parity.row_done /\ parity.bulk_done) =>
    /\ parity.row.result.records_inserted = parity.bulk.result.records_inserted
    /\ parity.row.transacoes = parity.bulk.transacoes

\* ------------------------------------------------------------------------
\* Properties of the transformer
\* ------------------------------------------------------------------------
\* The index labels of the rows of a DataFrame.
Labels(rows) == {rows[j].row : j \in 1..Len(rows)}

\* out is rows reduced to the first occurrence of every key, in order.
FirstOccurrences(rows, out) ==
  /\ \A j \in 1..Len(out) : \E i \in 1..Len(rows) : rows[i] = out[j]
  /\ \A j, k \in 1..Len(out) : j < k => out[j].row < out[k].row
  /\ \A i \in 1..Len(rows) :
        rows[i].row \in Labels(out)
          <=> \A k \in 1..(i - 1) : rows[k].id_transacao # rows[i].id_transacao

\* C16: the deduplication stage reduces the records sharing a business key
\* to the first occurrence in input order, duplicates_removed is the number
\* of records it removed, and the output of the transformer has pairwise
\* distinct business keys.
C16_Deduplication ==
  [][ /\ (tpc = "dedup" /\ tpc' = "validate")
          => /\ FirstOccurrences(frame, frame')
             /\ tstats'.duplicates_removed = Len(frame) - Len(frame')
      /\ tpc' = "done"
          => /\ tstats'.duplicates_removed = tstats.duplicates_removed
             /\ \A j, k \in 1..Len(frame') :
                   j # k => frame'[j].id_transacao # frame'[k].id_transacao
    ]_vars

\* Two rows with one shared key gave one retained record, the first, and
\* duplicates_removed = 1.
C16_Witness ==
  /\ tpc = "done"
  /\ Len(raw) = 2
  /\ raw[1].id_transacao = raw[2].id_transacao
  /\ raw[1] # raw[2]
  /\ Labels(frame) = {1}
  /\ tstats.duplicates_removed = 1


\* Input row i as type coercion leaves it.
Converted(i) == convert_row(Indexed(raw)[i])

\* Input row i survives null handling and is the first such row of its key.
ReachesValidation(i) ==
  /\ critical_not_null(Converted(i))
  /\ \A k \in 1..(i - 1) :
        critical_not_null(Converted(k))
          => Converted(k).id_transacao # Converted(i).id_transacao

\* Input row i is valid but for a payment date before its transaction date.
NeedsRepair(i) ==
  /\ ReachesValidation(i)
  /\ ~ (Converted(i).valor.m < 0)
  /\ ~ (Ord(Converted(i).data_transacao) > Ord(Now))
  /\ ~ Converted(i).data_pagamento.nat
  /\ Ord(Converted(i).data_pagamento) < Ord(Converted(i).data_transacao)

\* C17: every record that is otherwise valid and has a payment date earlier
\* than its transaction date is in the output with its payment date equal
\* to its transaction date; pagamento_antes_transacao counts these records,
\* and total_removidos and records_removed count only records that are not
\* in the output.
C17_RepairNotReject ==
  tpc = "done" =>
    LET rows     == 1..Len(raw)
        repaired == {i \in rows : NeedsRepair(i)}
    IN
    /\ \A i \in repaired :
          \E j \in 1..Len(frame) :
            /\ frame[j].row = i
            /\ frame[j].id_transacao = Converted(i).id_transacao
            /\ frame[j].data_transacao = Converted(i).data_transacao
            /\ frame[j].data_pagamento = Converted(i).data_transacao
    /\ tstats.pagamento_antes_transacao = Cardinality(repaired)
    /\ tstats.total_removidos =
         Cardinality({i \in rows : ReachesValidation(i) /\ i \notin Labels(frame)})
    /\ tstats.records_removed =
         Cardinality({i \in rows : i \notin Labels(frame)})

\* A transform whose output holds a repaired record, with another record
\* removed by validation.
C17_Witness ==
  /\ tpc = "done"
  /\ \E i \in 1..Len(raw) : NeedsRepair(i) /\ i \in Labels(frame)
  /\ tstats.pagamento_antes_transacao = 1
  /\ tstats.total_removidos = 1
  /\ tstats.records_removed = 1


\* The decimal value an amount text stands for: with a "," the text is in
\* the locale format ("." separates thousands, "," the decimals); without,
\* a "." is the decimal point.  A currency prefix and blanks are ignored.
AmountValue(s) ==
  LET bare == str_replace(str_replace(s, << "R", "$" >>, << >>), << " " >>, << >>)
  IN IF \E i \in 1..Len(bare) : bare[i] = ","
       THEN to_numeric(str_replace(str_replace(bare, << "." >>, << >>),
                                   << "," >>, << "." >>))
       ELSE to_numeric(bare)

\* C18: type coercion parses an amount text to the decimal value it stands
\* for: "R$ 2.500,00" gives 2500.00 and "50.00" gives 50.00.
C18_AmountParsing ==
  tpc = "nulls" =>
    \A i \in 1..Len(raw) :
      ~ raw[i].valor.na => frame[i].valor = AmountValue(raw[i].valor.s)


\* Input row i has a missing business key, or a missing or unparseable
\* transaction date or amount.
CriticalNull(i) ==
  \/ raw[i].id_transacao.na
  \/ to_datetime(raw[i].data_transacao).nat
  \/ raw[i].valor.na
  \/ convert_valor(raw[i].valor).nan

\* C19: every input record whose business key, transaction date or amount
\* is missing or unparseable is absent from the output and counted in the
\* critical-null drop counter, and no output record has a missing business
\* key, transaction date or amount.
C19_NullHandling ==
  tpc = "done" =>
    /\ \A i \in 1..Len(raw) : CriticalNull(i) => i \notin Labels(frame)
    /\ tstats.registros_removidos_por_nulos_criticos =
         Cardinality({i \in 1..Len(raw) : CriticalNull(i)})
    /\ \A j \in 1..Len(frame) :
         /\ ~ raw[frame[j].row].id_transacao.na
         /\ ~ frame[j].data_transacao.nat
         /\ ~ frame[j].valor.nan


\* C20: when a transform ends, records_input is the number of input records
\* and equals records_output plus the critical-null drops, the duplicates
\* removed, the negative-amount drops and the future-dated drops;
\* records_removed = records_input - records_output; and the repaired
\* records are records of the output, counted by no drop counter.
C20_NoSilentDataLoss ==
  tpc = "done" =>
    /\ tstats.success
    /\ tstats.records_input = Len(raw)
    /\ tstats.records_output = Len(frame)
    /\ tstats.records_input =
         tstats.records_output
         + tstats.registros_removidos_por_nulos_criticos
         + tstats.duplicates_removed
         + tstats.valores_negativos
         + tstats.datas_futuras
    /\ tstats.records_removed = tstats.records_input - tstats.records_output
    /\ tstats.pagamento_antes_transacao =
         Cardinality({j \in 1..Len(frame) :
           /\ ~ to_datetime(raw[frame[j].row].data_pagamento).nat
           /\ Ord(to_datetime(raw[frame[j].row].data_pagamento))
                < Ord(frame[j].data_transacao)})

\* A transform that dropped two records, one of them for a missing critical
\* field, and repaired the record it kept.
C20_Witness ==
  /\ tpc = "done"
  /\ tstats.records_input = Len(raw)
  /\ tstats.registros_removidos_por_nulos_criticos
       + tstats.duplicates_removed
       + tstats.valores_negativos
       + tstats.datas_futuras >= 2
  /\ tstats.registros_removidos_por_nulos_criticos >= 1
  /\ tstats.pagamento_antes_transacao = 1
  /\ tstats.records_output = 1


\* ------------------------------------------------------------------------
\* Properties of the loader, continued
\* ------------------------------------------------------------------------
\* Place of a step of load in the order CHECK_IDEMPOTENCY, ENSURE_SCHEMA,
\* BEGIN_LOG, INSERT, FINALIZE_LOG, REGISTER_FILE; 0 for a commit.
StepRank(step) ==
  IF step = "check_file_processed" THEN 1
  ELSE IF step = "ensure_tables_exist" THEN 2
  ELSE IF step = "create_log_entry" THEN 3
  ELSE IF step \in {"insert_batch", "insert_batch_bulk", "_copy_from_csv"} THEN 4
  ELSE IF step = "update_log_entry" THEN 5
  ELSE IF step = "register_file_processed" THEN 6
  ELSE 0

\* The call of p was short-circuited by the idempotency check.
ShortCircuited(p) ==
  pc[p] = "done" /\ result[p].success /\ result[p].error_message = "already"

\* C21: a load performs its steps in the order CHECK_IDEMPOTENCY,
\* ENSURE_SCHEMA, BEGIN_LOG, INSERT, FINALIZE_LOG, REGISTER_FILE, none of
\* them twice, and a short-circuited load performs no schema creation.
C21_LoaderStepOrder ==
  \A p \in Procs :
    /\ \A i, j \in 1..Len(steps[p]) :
         (i < j /\ StepRank(steps[p][i]) > 0 /\ StepRank(steps[p][j]) > 0)
           => StepRank(steps[p][i]) < StepRank(steps[p][j])
    /\ ShortCircuited(p) =>
         \A i \in 1..Len(steps[p]) : steps[p][i] # "ensure_tables_exist"


\* p makes a step of its insert strategy: a record or a batch is counted.
StrategyStep(p, strategy) ==
  /\ pc[p] = "insert"
  /\ args[p].strategy = strategy
  /\ pc'[p] \in {"insert", "finalize"}
  /\ stats'[p] # stats[p]

\* C22: in the row-level strategy a record whose business key the load
\* already sees in the store is counted in skipped and not in failed; a
\* record hitting any other error is counted in failed; after a failure the
\* next batch is processed; and a failure at the start of a batch leaves
\* what the earlier batches inserted in the transaction.
C22_RowLevelCounting ==
  [][ \A p \in Procs :
        StrategyStep(p, "row") =>
          LET df  == DataFrame(args[p].file_hash)
              j   == pos[p]
              r   == df[j]
              dup == r.err = "ok" /\ Visible(p)[r.id_transacao] > 0
              ins == stats'[p].inserted = stats[p].inserted + 1
          IN
          /\ dup => /\ stats'[p].skipped = stats[p].skipped + 1
                    /\ stats'[p].failed = stats[p].failed
                    /\ stats'[p].inserted = stats[p].inserted
          /\ (~ dup /\ ~ ins) =>
                    /\ stats'[p].failed >= stats[p].failed + 1
                    /\ stats'[p].skipped = stats[p].skipped
                    /\ stats'[p].inserted = stats[p].inserted
                    /\ pos'[p] = BatchStart(j) + etl_batch_size + 1
          /\ (~ ins /\ j = BatchStart(j) + 1) =>
                    session'[p] = session[p]
    ]_vars


\* The rows of a record list, per key.
RECURSIVE RowsOf(_)
RowsOf(records) ==
  IF records = << >> THEN NoRows
  ELSE [RowsOf(Tail(records)) EXCEPT ![Head(records).id_transacao] = @ + 1]

\* p is a bulk-staged load between the writing of its staging file and the
\* end of its COPY.
Staged(p) == pc[p] = "copy"

\* C24: the staging area of a bulk-staged load is private to it: while two
\* such loads of different files run interleaved, the staging file of each
\* holds its own records and is not the file of the other, and a COPY that
\* succeeds adds exactly the records of its own load to the store.
C24_StagingIsPrivate ==
  [][ \A p \in Procs :
        /\ \A q \in Procs \ {p} :
              ( /\ pc'[p] = "copy"
                /\ pc'[q] \in {"copy", "copy_done", "copy_failed"}
                /\ args'[q].file_hash # args'[p].file_hash )
              => /\ temp_path'[q] # temp_path'[p]
                 /\ temp_files'[temp_path'[p]] = args'[p].file_hash
        /\ (Staged(p) /\ pc'[p] = "copy_done") =>
              transacoes' = AddRows(transacoes, RowsOf(DataFrame(args[p].file_hash)))
    ]_vars


\* Number of batches of n records.
BatchCount(n) == (n + etl_batch_size - 1) \div etl_batch_size

\* C23: in the set-based strategy every batch is attempted; a batch that
\* executes without error adds the number of rows actually inserted to
\* inserted and the rest of the batch to skipped; a batch that raises adds
\* its full size to failed and nothing to inserted or skipped.
C23_SetBasedCounting ==
  (parity.phase = "start" /\ parity.bulk_done) =>
    LET df      == parity.df
        begun   == [rows |-> NoRows, log_row |-> TRUE]
        batches == insert_batch_bulk_batches(df, 0, parity.store, begun, NoStats)
    IN
    /\ Len(batches) = BatchCount(Len(df))
    /\ \A b \in 1..Len(batches) :
         LET x      == batches[b]
             first  == (b - 1) * etl_batch_size + 1
             last   == IF b * etl_batch_size < Len(df)
                         THEN b * etl_batch_size ELSE Len(df)
             size   == last - first + 1
             raises == \E n \in first..last : df[n].err # "ok"
             actual == RowCount(x.session_after.rows) - RowCount(x.session.rows)
         IN
         /\ x.i = first - 1
         /\ raises =>
              /\ x.stats_after.failed = x.stats.failed + size
              /\ x.stats_after.inserted = x.stats.inserted
              /\ x.stats_after.skipped = x.stats.skipped
         /\ ~ raises =>
              /\ x.stats_after.failed = x.stats.failed
              /\ x.stats_after.inserted = x.stats.inserted + actual
              /\ x.stats_after.skipped = x.stats.skipped + size - actual
    /\ parity.bulk.stats =
         IF batches = << >> THEN NoStats ELSE batches[Len(batches)].stats_after

\* A set-based run whose first batch raised and whose second batch was
\* executed and inserted its row.
C23_Witness ==
  /\ parity.phase = "start"
  /\ parity.bulk_done
  /\ Len(parity.df) = etl_batch_size + 1
  /\ parity.df[1].err # "ok"
  /\ parity.bulk.stats = [inserted |-> 1, skipped |-> 0, failed |-> etl_batch_size]


\* ------------------------------------------------------------------------
\* Properties of the transformer, continued
\* ------------------------------------------------------------------------
\* Days from 1 January 2000, a Saturday, to the date t, both included.
RECURSIVE DaysBeforeYear(_)
DaysBeforeYear(y) ==
  IF y <= 2000 THEN 0
  ELSE DaysBeforeYear(y - 1) + (IF IsLeap(y - 1) THEN 366 ELSE 365)

RECURSIVE DaysBeforeMonth(_, _)
DaysBeforeMonth(m, y) ==
  IF m <= 1 THEN 0 ELSE DaysBeforeMonth(m - 1, y) + DaysIn(m - 1, y)

DayNumber(t) == DaysBeforeYear(t.y) + DaysBeforeMonth(t.m, t.y) + t.d

\* Day of the week of t, 0 = Monday .. 6 = Sunday.
Weekday(t) == (DayNumber(t) + 4) % 7

\* t is a date after the processing time.
After(t, now) ==
  \/ t.y > now.y
  \/ t.y = now.y /\ t.m > now.m
  \/ t.y = now.y /\ t.m = now.m /\ t.d > now.d

\* C25: every record of the output of a successful transform has an amount
\* >= 0, a transaction date not after the processing time, a payment date
\* that is absent or not before its transaction date, and month in 1..12,
\* weekday in 0..6 and quarter in 1..4 derived from its transaction date;
\* the negative-amount and the future-dated input records are not in the
\* output.
C25_OutputInvariants ==
  (tpc = "done" /\ tstats.success) =>
    /\ \A j \in 1..Len(frame) :
         LET r == frame[j]
             t == r.data_transacao
         IN
         /\ ~ r.valor.nan /\ r.valor.m >= 0
         /\ ~ t.nat /\ ~ After(t, Now)
         /\ r.data_pagamento.nat \/ ~ After(t, r.data_pagamento)
         /\ r.ano_transacao = t.y
         /\ r.mes_transacao \in 1..12 /\ r.mes_transacao = t.m
         /\ r.dia_semana \in 0..6 /\ r.dia_semana = Weekday(t)
         /\ r.trimestre \in 1..4
         /\ 3 * (r.trimestre - 1) < t.m /\ t.m <= 3 * r.trimestre
    /\ \A i \in 1..Len(raw) :
         LET v == raw[i].valor
             t == to_datetime(raw[i].data_transacao)
         IN
         ( \/ ~ v.na /\ ~ AmountValue(v.s).nan /\ AmountValue(v.s).m < 0
           \/ ~ t.nat /\ After(t, Now) )
         => i \notin Labels(frame)

\* A transform whose input held a negative amount and a future date and
\* whose output holds a record with a payment date.
C25_Witness ==
  /\ tpc = "done"
  /\ tstats.success
  /\ tstats.valores_negativos = 1
  /\ \E i \in 1..Len(raw) : After(to_datetime(raw[i].data_transacao), Now)
  /\ \E j \in 1..Len(frame) :
       /\ ~ frame[j].data_pagamento.nat
       /\ frame[j].dia_semana = Weekday(frame[j].data_transacao)


\* ------------------------------------------------------------------------
\* Properties of the transformer, continued
\* ------------------------------------------------------------------------
\* base_columns of load_via_copy: the canonical columns of the output.
base_columns ==
  << "id_transacao", "data_transacao", "cliente", "produto", "categoria",
     "valor", "status_pagamento", "data_pagamento", "ano_transacao",
     "mes_transacao", "dia_semana", "trimestre", "arquivo_origem" >>

\* C26: the output of a successful transform has exactly the canonical
\* columns in the canonical order, the payment date among them; when the
\* input had no payment-date column the payment date of every output record
\* is null.
C26_FinalProjection ==
  (tpc = "done" /\ tstats.success) =>
    /\ columns = base_columns
    /\ ~ Has(raw_columns, "data_pagamento") =>
         \A j \in 1..Len(frame) : frame[j].data_pagamento.nat


\* ------------------------------------------------------------------------
\* Properties of the insert strategies, continued
\* ------------------------------------------------------------------------
\* C27: the counters insert_batch and insert_batch_bulk return for n
\* records, whatever the duplicates and the failing records among them, are
\* not negative and add up to n.
C27_CountConservation ==
  LET Conserved(st, n) ==
        /\ st.inserted >= 0
        /\ st.skipped >= 0
        /\ st.failed >= 0
        /\ st.inserted + st.skipped + st.failed = n
  IN
  parity.phase = "start" =>
    /\ parity.row_done => Conserved(parity.row.stats, Len(parity.df))
    /\ parity.bulk_done => Conserved(parity.bulk.stats, Len(parity.df))


\* ------------------------------------------------------------------------
\* Properties of the loader: what a load reports and what it leaves
\* ------------------------------------------------------------------------
\* C28: what load reports as inserted is what it added to the committed
\* store, and the execution log says the same; a duplicate skip or a failing
\* batch takes neither the rows already counted as inserted nor the
\* execution log out of the transaction of the load.
C28_ReportedInsertsDurable ==
  [][ \A p \in Procs :
        /\ (StrategyStep(p, "row") \/ StrategyStep(p, "bulk")) =>
              /\ \A k \in Keys : session'[p].rows[k] >= session[p].rows[k]
              /\ session'[p].log_row = session[p].log_row
        /\ (pc[p] = "finalize" /\ pc'[p] = "done") =>
              /\ result'[p].records_inserted =
                   RowCount(transacoes') - RowCount(transacoes)
              /\ result'[p].success =>
                   \E l \in logs_etl' :
                     /\ l.id_log = result'[p].log_id
                     /\ l.qtd_registros_inseridos = result'[p].records_inserted
    ]_vars


\* C29: a load whose execution log is finalized as ERRO returns success =
\* false; a load that returns success = true was short-circuited or has
\* committed its log as SUCESSO or PARCIAL.
C29_SuccessAgreesWithLog ==
  \A p \in Procs :
    pc[p] = "done" =>
      /\ log[p].status_execucao = "ERRO" => ~ result[p].success
      /\ (result[p].success /\ ~ ShortCircuited(p)) =>
           /\ log[p].status_execucao \in {"SUCESSO", "PARCIAL"}
           /\ \E l \in logs_etl :
                /\ l.id_log = result[p].log_id
                /\ l.status_execucao \in {"SUCESSO", "PARCIAL"}

\* A load through insert_batch or insert_batch_bulk has finalized its log
\* as ERRO and returned success = false.
C29_Witness ==
  \E p \in Procs :
    /\ pc[p] = "done"
    /\ args[p].strategy \in {"row", "bulk"}
    /\ log[p].status_execucao = "ERRO"
    /\ ~ result[p].success


\* ------------------------------------------------------------------------
\* Properties of the transformer: deduplication before validation
\* ------------------------------------------------------------------------
\* C30: deduplication runs before validation, on the records that null
\* handling kept: a business key is in the output iff the first kept record
\* of the key has a non-negative amount and a non-future date; the output
\* holds no later record of a key; and the later records of a key are
\* counted as duplicates, the rejected first records as rejected.
C30_DedupBeforeValidation ==
  tpc = "done" =>
    LET PassesValidation(i) ==
          /\ ~ (Converted(i).valor.m < 0)
          /\ ~ (Ord(Converted(i).data_transacao) > Ord(Now))
        rows   == 1..Len(raw)
        kept   == {i \in rows : critical_not_null(Converted(i))}
        firsts == {i \in rows : ReachesValidation(i)}
    IN
    /\ \A i \in firsts :
          (\E j \in 1..Len(frame) :
              frame[j].id_transacao = Converted(i).id_transacao)
            <=> PassesValidation(i)
    /\ Labels(frame) \subseteq firsts
    /\ tstats.duplicates_removed = Cardinality(kept \ firsts)
    /\ tstats.valores_negativos + tstats.datas_futuras =
         Cardinality({i \in firsts : ~ PassesValidation(i)})

\* A key whose first record validation rejected and whose later record is
\* valid: the key is not in the output and the later record is counted as a
\* duplicate.
C30_Witness ==
  /\ tpc = "done"
  /\ \E i, k \in 1..Len(raw) :
       /\ i < k
       /\ ReachesValidation(i)
       /\ Converted(i).valor.m < 0
       /\ critical_not_null(Converted(k))
       /\ Converted(k).id_transacao = Converted(i).id_transacao
       /\ ~ (Converted(k).valor.m < 0)
       /\ ~ (Ord(Converted(k).data_transacao) > Ord(Now))
       /\ \A j \in 1..Len(frame) :
            frame[j].id_transacao # Converted(i).id_transacao
  /\ tstats.duplicates_removed >= 1

====
